---- MODULE Spec2Model ----
(***************************************************************************)
(* A model of src/app.py: the truck-delivery price calculator.             *)
(*                                                                         *)
(* One script run is a sequence of steps (pc): key check, geocode, route,  *)
(* tariff and record, display, CSV sink, spreadsheet sink, map.            *)
(*                                                                         *)
(* Units.  Distances are integers in hundredths of a kilometre ("ckm"),    *)
(* because the script rounds the distance to two decimals before pricing   *)
(* it; prices are integers in hundredths of a euro; the zone breakpoints   *)
(* and the zone prices are the integers the script makes of its inputs     *)
(* (int(z1) ...), the per-km rate is a whole number of euros.  Latitudes   *)
(* and longitudes are abstract integers.  The values of a record are kept  *)
(* in their text form.                                                     *)
(***************************************************************************)
EXTENDS Integers, Sequences, FiniteSets, TLC

VARIABLES
    pc,           \* position of the script run
    host,         \* api_key found, gspread imported, state of the service-account secret
    cfg,          \* the sidebar inputs of this run
    T,            \* the module-level tariff globals (ZONA_*_KM, PRECIO_*)
    dest,         \* the geocoding call: made or not, the response, its outcome
    route,        \* the routing call: made or not, destination, response, outcome
    calc,         \* distancia_km, dur, price, after the tariff step
    row,          \* the record of this calculation
    shown,        \* what the page shows: result metrics, map
    msgs,         \* st.error / st.warning / st.success messages, in order
    events,       \* outbound requests, computations and sink calls, in order
    csv_file,     \* the file at csv_path
    csv_log,      \* the file as first seen, the rows logged since, the last outcome
    sheet,        \* the named worksheet of the remote spreadsheet
    gs_log        \* the worksheet before the last call, and how the call ended

vars == << pc, host, cfg, T, dest, route, calc, row, shown, msgs, events,
           csv_file, csv_log, sheet, gs_log >>

(***************************************************************************)
(* Bounds of the model.                                                    *)
(***************************************************************************)
MaxDistCkm == 2600     \* distances priced under the default table: 0 .. 26 km
MaxZone == 2           \* breakpoints of the small tariff tables: 0 .. MaxZone km
MaxExtra == 2          \* per-km rates of the small tariff tables
MaxSeconds == 7300     \* durations formatted
MaxCalls == 3          \* log_to_csv calls in a row
MaxSheetCalls == 2     \* append_to_gsheet calls in a row

(***************************************************************************)
(* Program constants.                                                      *)
(***************************************************************************)
DEFAULT_ORIGIN_LAT == 40
DEFAULT_ORIGIN_LON == -3

DefaultTariff ==
    [ ZONA_1_KM |-> 3, ZONA_2_KM |-> 5, ZONA_3_KM |-> 10, ZONA_4_KM |-> 20,
      PRECIO_ZONA_1 |-> 25, PRECIO_ZONA_2 |-> 35, PRECIO_ZONA_3 |-> 50,
      PRECIO_ZONA_4 |-> 70, PRECIO_POR_KM_EXTRA |-> 1 ]

FIELDNAMES ==
    << "timestamp_iso",
       "origin_address", "origin_lat", "origin_lon",
       "dest_input_address", "dest_input_postal", "dest_input_city",
       "dest_geocoded_title", "dest_lat", "dest_lon",
       "distance_km", "duration_seconds", "duration_human", "price_eur",
       "zona_1_km", "zona_2_km", "zona_3_km", "zona_4_km",
       "precio_z1", "precio_z2", "precio_z3", "precio_z4", "precio_km_extra",
       "truckHeight", "truckWidth", "truckLength", "truckWeight",
       "truckAxleCount", "truckType" >>

TRUCK_PARAMS ==
    [ truckHeight |-> "4", truckWidth |-> "2.5", truckLength |-> "10",
      truckWeight |-> "16000", truckAxleCount |-> "2", truckType |-> "delivery" ]

(***************************************************************************)
(* Tariff engine.                                                          *)
(***************************************************************************)
\* compute_tariff with the overage measured from the zone-4 breakpoint
compute_tariff_from_zone4(distance_km, G) ==
    IF distance_km <= G.ZONA_1_KM * 100 THEN G.PRECIO_ZONA_1 * 100
    ELSE IF distance_km <= G.ZONA_2_KM * 100 THEN G.PRECIO_ZONA_2 * 100
    ELSE IF distance_km <= G.ZONA_3_KM * 100 THEN G.PRECIO_ZONA_3 * 100
    ELSE IF distance_km <= G.ZONA_4_KM * 100 THEN G.PRECIO_ZONA_4 * 100
    ELSE G.PRECIO_ZONA_4 * 100
           + (distance_km - G.ZONA_4_KM * 100) * G.PRECIO_POR_KM_EXTRA

\* distance_km in ckm, G the tariff globals; the price in hundredths of a euro
compute_tariff(distance_km, G) ==
    IF distance_km <= G.ZONA_1_KM * 100 THEN G.PRECIO_ZONA_1 * 100
    ELSE IF distance_km <= G.ZONA_2_KM * 100 THEN G.PRECIO_ZONA_2 * 100
    ELSE IF distance_km <= G.ZONA_3_KM * 100 THEN G.PRECIO_ZONA_3 * 100
    ELSE IF distance_km <= G.ZONA_4_KM * 100 THEN G.PRECIO_ZONA_4 * 100
    ELSE G.PRECIO_ZONA_4 * 100
           + (distance_km - G.ZONA_2_KM * 100) * G.PRECIO_POR_KM_EXTRA

\* human_duration that shows the total minutes beside the hours
human_duration_total_minutes(seconds) ==
    LET m0 == seconds \div 60
        s  == seconds % 60
        h  == m0 \div 60
    IN  IF h # 0
        THEN ToString(h) \o "h " \o ToString(m0) \o "m " \o ToString(s) \o "s"
        ELSE IF m0 # 0 THEN ToString(m0) \o "m " \o ToString(s) \o "s"
        ELSE ToString(s) \o "s"

human_duration(seconds) ==
    LET m0 == seconds \div 60
        s  == seconds % 60
        h  == m0 \div 60
        m  == m0 % 60
    IN  IF h # 0
        THEN ToString(h) \o "h " \o ToString(m) \o "m " \o ToString(s) \o "s"
        ELSE IF m # 0 THEN ToString(m) \o "m " \o ToString(s) \o "s"
        ELSE ToString(s) \o "s"

(***************************************************************************)
(* Geocoding client.                                                       *)
(*                                                                         *)
(* A provider response: raised says that requests.get itself raised (no    *)
(* response at all); otherwise status_code and the body: text, whether it  *)
(* parses as a JSON object (json_ok), whether it has the key "items", and  *)
(* the items.  An item may lack "position", "access", "title"; an access   *)
(* entry may lack "lat" or "lng".                                          *)
(***************************************************************************)
NoResult ==
    [ ok |-> FALSE, err |-> "", msg |-> "", lat |-> 0, lon |-> 0, title |-> "",
      access_lat |-> 0, access_lon |-> 0 ]

GeoError(err, msg) == [ NoResult EXCEPT !.err = err, !.msg = msg ]

geocode_query(address, postal_code, city) ==
    LET q1 == IF postal_code # "" THEN address \o ", " \o postal_code ELSE address
    IN  IF city # "" THEN q1 \o ", " \o city ELSE q1

\* geocode_access that takes the last entry of the access list
geocode_access_last(item) ==
    IF item.has_access /\ item.access # << >>
    THEN LET a == item.access[Len(item.access)]
         IN  << IF a.has_lat THEN a.lat ELSE item.lat,
                IF a.has_lng THEN a.lng ELSE item.lng >>
    ELSE << item.lat, item.lng >>

\* the access coordinate of an item: lines 92-97
geocode_access(item) ==
    IF item.has_access /\ item.access # << >>
    THEN LET a == item.access[1]
         IN  << IF a.has_lat THEN a.lat ELSE item.lat,
                IF a.has_lng THEN a.lng ELSE item.lng >>
    ELSE << item.lat, item.lng >>

\* geocode_address that looks at the body before the status
geocode_address_body_first(address, resp) ==
    IF resp.raised THEN GeoError("RequestException", "connection failed")
    ELSE IF ~resp.json_ok
    THEN GeoError("JSONDecodeError", "Expecting value: line 1 column 1 (char 0)")
    ELSE IF ~resp.has_items \/ resp.items = << >>
    THEN GeoError("NotFoundError", "No results for that address.")
    ELSE IF resp.status_code # 200
    THEN GeoError("TransportError",
                  "Geocoding failed: " \o ToString(resp.status_code) \o " - " \o resp.text)
    ELSE LET item == resp.items[1]
         IN  IF ~item.has_position THEN GeoError("KeyError", "'position'")
             ELSE [ ok |-> TRUE, err |-> "", msg |-> "",
                    lat |-> item.lat, lon |-> item.lng,
                    title |-> IF item.has_title THEN item.title ELSE address,
                    access_lat |-> geocode_access(item)[1],
                    access_lon |-> geocode_access(item)[2] ]

\* the outcome of geocode_address(address, ...) when the provider answers resp
geocode_address(address, resp) ==
    IF resp.raised THEN GeoError("RequestException", "connection failed")
    ELSE IF resp.status_code # 200
    THEN GeoError("TransportError",
                  "Geocoding failed: " \o ToString(resp.status_code) \o " - " \o resp.text)
    ELSE IF ~resp.json_ok
    THEN GeoError("JSONDecodeError", "Expecting value: line 1 column 1 (char 0)")
    ELSE IF ~resp.has_items \/ resp.items = << >>
    THEN GeoError("NotFoundError", "No results for that address.")
    ELSE LET item == resp.items[1]
         IN  IF ~item.has_position THEN GeoError("KeyError", "'position'")
             ELSE [ ok |-> TRUE, err |-> "", msg |-> "",
                    lat |-> item.lat, lon |-> item.lng,
                    title |-> IF item.has_title THEN item.title ELSE address,
                    access_lat |-> geocode_access(item)[1],
                    access_lon |-> geocode_access(item)[2] ]

\* the provider responses the model draws from
AccessFull == [ has_lat |-> TRUE, lat |-> 41, has_lng |-> TRUE, lng |-> 11 ]
AccessOther == [ has_lat |-> TRUE, lat |-> 42, has_lng |-> TRUE, lng |-> 12 ]
AccessEntries ==
    { AccessFull, AccessOther,
      [ AccessFull EXCEPT !.has_lat = FALSE, !.lat = 0 ],
      [ AccessFull EXCEPT !.has_lng = FALSE, !.lng = 0 ],
      [ has_lat |-> FALSE, lat |-> 0, has_lng |-> FALSE, lng |-> 0 ] }

AccessLists ==
    { << >> } \cup { << a >> : a \in AccessEntries }
              \cup { << AccessFull, AccessOther >>, << AccessOther, AccessFull >> }

GeoItems ==
    { [ has_position |-> hp, lat |-> IF hp THEN 45 ELSE 0, lng |-> IF hp THEN 15 ELSE 0,
        has_access |-> ha, access |-> IF ha THEN al ELSE << >>,
        has_title |-> ht, title |-> IF ht THEN "Calle de Alcala, 100" ELSE "" ]
      : hp \in BOOLEAN, ha \in BOOLEAN, al \in AccessLists, ht \in BOOLEAN }

GeoItemSecond ==
    [ has_position |-> TRUE, lat |-> 50, lng |-> 20, has_access |-> TRUE,
      access |-> << AccessOther >>, has_title |-> TRUE, title |-> "Another place" ]

GeoBodies ==
    { [ json_ok |-> FALSE, has_items |-> FALSE, items |-> << >> ],
      [ json_ok |-> TRUE, has_items |-> FALSE, items |-> << >> ],
      [ json_ok |-> TRUE, has_items |-> TRUE, items |-> << >> ] }
    \cup { [ json_ok |-> TRUE, has_items |-> TRUE, items |-> << i >> ] : i \in GeoItems }
    \cup { [ json_ok |-> TRUE, has_items |-> TRUE, items |-> << i, GeoItemSecond >> ]
           : i \in GeoItems }

HttpResponse(status, b) ==
    [ raised |-> FALSE, status_code |-> status,
      text |-> IF b.json_ok THEN "{json}" ELSE "<html>",
      json_ok |-> b.json_ok, has_items |-> b.has_items, items |-> b.items ]

GeoRaised ==
    [ raised |-> TRUE, status_code |-> 0, text |-> "", json_ok |-> FALSE,
      has_items |-> FALSE, items |-> << >> ]

StatusCodes == { 200, 403 }

GeoResponses ==
    { GeoRaised } \cup { HttpResponse(st, b) : st \in StatusCodes, b \in GeoBodies }

\* the few responses the whole-run specification draws from
GeoItemPlain ==
    [ has_position |-> TRUE, lat |-> 45, lng |-> 15, has_access |-> FALSE,
      access |-> << >>, has_title |-> FALSE, title |-> "" ]

GeoResponsesCore ==
    { GeoRaised,
      HttpResponse(403, [ json_ok |-> FALSE, has_items |-> FALSE, items |-> << >> ]),
      HttpResponse(200, [ json_ok |-> TRUE, has_items |-> TRUE, items |-> << >> ]),
      HttpResponse(200, [ json_ok |-> TRUE, has_items |-> TRUE,
                          items |-> << [ GeoItemPlain EXCEPT !.has_position = FALSE,
                                                             !.lat = 0, !.lng = 0 ] >> ]),
      HttpResponse(200, [ json_ok |-> TRUE, has_items |-> TRUE,
                          items |-> << GeoItemPlain >> ]),
      HttpResponse(200, [ json_ok |-> TRUE, has_items |-> TRUE,
                          items |-> << [ GeoItemPlain EXCEPT
                                           !.has_access = TRUE,
                                           !.access = << AccessFull, AccessOther >>,
                                           !.has_title = TRUE,
                                           !.title = "Calle de Alcala, 100" ],
                                       GeoItemSecond >> ]) }

(***************************************************************************)
(* Routing client.                                                         *)
(*                                                                         *)
(* A provider response as above, with "routes"; a route may lack           *)
(* "sections" or have none; a section may lack "summary" (or its "length"  *)
(* or "duration") or "polyline".  An encoded polyline is a string that the *)
(* polyline library either decodes to coordinates or rejects.              *)
(***************************************************************************)
NoRoute == [ ok |-> FALSE, err |-> "", msg |-> "", coords |-> << >>,
             length_m |-> 0, duration_s |-> 0 ]

RouteError(err, msg) == [ NoRoute EXCEPT !.err = err, !.msg = msg ]

Polylines == { "enc:ab", "enc:cd", "%%%" }

pl_decodable(encoded) == encoded \in { "enc:ab", "enc:cd" }

pl_decode(encoded) ==
    IF encoded = "enc:ab" THEN << << 40, -3 >>, << 41, 11 >> >>
    ELSE << << 40, -3 >>, << 43, 13 >>, << 45, 15 >> >>

\* decode_poly that returns no coordinates for a polyline it cannot decode
decode_poly_lenient(encoded) ==
    IF pl_decodable(encoded)
    THEN [ NoRoute EXCEPT !.ok = TRUE, !.coords = pl_decode(encoded) ]
    ELSE [ NoRoute EXCEPT !.ok = TRUE ]

decode_poly(encoded) ==
    IF pl_decodable(encoded)
    THEN [ NoRoute EXCEPT !.ok = TRUE, !.coords = pl_decode(encoded) ]
    ELSE RouteError("InvalidPolylineError", "Invalid polyline")

\* truck_route that takes the last route of the response
truck_route_last(resp) ==
    IF resp.raised THEN RouteError("RequestException", "connection failed")
    ELSE IF resp.status_code # 200
    THEN RouteError("TransportError",
                    "Routing failed: " \o ToString(resp.status_code) \o " - " \o resp.text)
    ELSE IF ~resp.json_ok
    THEN RouteError("JSONDecodeError", "Expecting value: line 1 column 1 (char 0)")
    ELSE IF ~resp.has_routes \/ resp.routes = << >>
    THEN RouteError("NoRouteError", "No route found.")
    ELSE LET r0 == resp.routes[Len(resp.routes)]
         IN  IF ~r0.has_sections THEN RouteError("KeyError", "'sections'")
             ELSE IF r0.sections = << >>
             THEN RouteError("IndexError", "list index out of range")
             ELSE LET sec == r0.sections[1]
                  IN  IF ~sec.has_summary THEN RouteError("KeyError", "'summary'")
                      ELSE IF ~sec.has_length THEN RouteError("KeyError", "'length'")
                      ELSE IF ~sec.has_duration THEN RouteError("KeyError", "'duration'")
                      ELSE IF ~sec.has_polyline THEN RouteError("KeyError", "'polyline'")
                      ELSE LET d == decode_poly(sec.polyline)
                           IN  IF ~d.ok THEN d
                               ELSE [ d EXCEPT !.length_m = sec.length,
                                               !.duration_s = sec.duration ]

\* the outcome of truck_route(origin, destination, apikey) when the provider
\* answers resp
truck_route(resp) ==
    IF resp.raised THEN RouteError("RequestException", "connection failed")
    ELSE IF resp.status_code # 200
    THEN RouteError("TransportError",
                    "Routing failed: " \o ToString(resp.status_code) \o " - " \o resp.text)
    ELSE IF ~resp.json_ok
    THEN RouteError("JSONDecodeError", "Expecting value: line 1 column 1 (char 0)")
    ELSE IF ~resp.has_routes \/ resp.routes = << >>
    THEN RouteError("NoRouteError", "No route found.")
    ELSE LET r0 == resp.routes[1]
         IN  IF ~r0.has_sections THEN RouteError("KeyError", "'sections'")
             ELSE IF r0.sections = << >>
             THEN RouteError("IndexError", "list index out of range")
             ELSE LET sec == r0.sections[1]
                  IN  IF ~sec.has_summary THEN RouteError("KeyError", "'summary'")
                      ELSE IF ~sec.has_length THEN RouteError("KeyError", "'length'")
                      ELSE IF ~sec.has_duration THEN RouteError("KeyError", "'duration'")
                      ELSE IF ~sec.has_polyline THEN RouteError("KeyError", "'polyline'")
                      ELSE LET d == decode_poly(sec.polyline)
                           IN  IF ~d.ok THEN d
                               ELSE [ d EXCEPT !.length_m = sec.length,
                                               !.duration_s = sec.duration ]

\* the provider responses the model draws from
RouteLengths == { 2500, 4995, 25000 }
RouteDurations == { 45, 3725 }

Section(len, dur, poly) ==
    [ has_summary |-> TRUE, has_length |-> TRUE, length |-> len,
      has_duration |-> TRUE, duration |-> dur, has_polyline |-> TRUE, polyline |-> poly ]

SectionSecond == Section(111, 11, "enc:cd")

RouteSections ==
    { Section(l, d, p) : l \in RouteLengths, d \in RouteDurations, p \in Polylines }
    \cup { [ Section(2500, 45, "enc:ab") EXCEPT !.has_summary = FALSE,
               !.has_length = FALSE, !.length = 0, !.has_duration = FALSE, !.duration = 0 ],
           [ Section(2500, 45, "enc:ab") EXCEPT !.has_length = FALSE, !.length = 0 ],
           [ Section(2500, 45, "enc:ab") EXCEPT !.has_duration = FALSE, !.duration = 0 ],
           [ Section(2500, 45, "enc:ab") EXCEPT !.has_polyline = FALSE, !.polyline = "" ] }

Routes ==
    { [ has_sections |-> FALSE, sections |-> << >> ],
      [ has_sections |-> TRUE, sections |-> << >> ] }
    \cup { [ has_sections |-> TRUE, sections |-> << s >> ] : s \in RouteSections }
    \cup { [ has_sections |-> TRUE, sections |-> << s, SectionSecond >> ]
           : s \in RouteSections }

RouteSecond == [ has_sections |-> TRUE, sections |-> << Section(222, 22, "enc:cd") >> ]

RouteBodies ==
    { [ json_ok |-> FALSE, has_routes |-> FALSE, routes |-> << >> ],
      [ json_ok |-> TRUE, has_routes |-> FALSE, routes |-> << >> ],
      [ json_ok |-> TRUE, has_routes |-> TRUE, routes |-> << >> ] }
    \cup { [ json_ok |-> TRUE, has_routes |-> TRUE, routes |-> << r >> ] : r \in Routes }
    \cup { [ json_ok |-> TRUE, has_routes |-> TRUE, routes |-> << r, RouteSecond >> ]
           : r \in Routes }

RouteHttpResponse(status, b) ==
    [ raised |-> FALSE, status_code |-> status,
      text |-> IF b.json_ok THEN "{json}" ELSE "<html>",
      json_ok |-> b.json_ok, has_routes |-> b.has_routes, routes |-> b.routes ]

RouteRaised ==
    [ raised |-> TRUE, status_code |-> 0, text |-> "", json_ok |-> FALSE,
      has_routes |-> FALSE, routes |-> << >> ]

RouteResponses ==
    { RouteRaised } \cup { RouteHttpResponse(st, b) : st \in StatusCodes, b \in RouteBodies }

\* the few responses the whole-run specification draws from
RouteBody(sections) ==
    [ json_ok |-> TRUE, has_routes |-> TRUE,
      routes |-> << [ has_sections |-> TRUE, sections |-> sections ] >> ]

RouteResponsesCore ==
    { RouteRaised,
      RouteHttpResponse(403, [ json_ok |-> FALSE, has_routes |-> FALSE, routes |-> << >> ]),
      RouteHttpResponse(200, [ json_ok |-> TRUE, has_routes |-> TRUE, routes |-> << >> ]),
      RouteHttpResponse(200, RouteBody(<< >>)),
      RouteHttpResponse(200, RouteBody(<< Section(2500, 45, "%%%") >>)),
      RouteHttpResponse(200, RouteBody(<< Section(4995, 45, "enc:ab") >>)),
      RouteHttpResponse(200, RouteBody(<< Section(25000, 3725, "enc:cd"), SectionSecond >>)) }

(***************************************************************************)
(* Record logger: CSV sink.                                                *)
(*                                                                         *)
(* A file is [exists, lines], a line being the sequence of its cells.  A   *)
(* record (row) is a function from some keys to text.  fail says where the *)
(* call raises: "open" (makedirs or open raises: nothing is touched) or    *)
(* "write" (writerow raises after the file was opened for append).         *)
(***************************************************************************)
NoFile == [ exists |-> FALSE, lines |-> << >> ]

\* row.get(k, "")
row_get(r, k) == IF k \in DOMAIN r THEN r[k] ELSE ""

\* [row.get(k, "") for k in FIELDNAMES] that skips the missing fields
row_values_of_present(r) ==
    LET F[i \in 0..Len(FIELDNAMES)] ==
            IF i = 0 THEN << >>
            ELSE IF FIELDNAMES[i] \in DOMAIN r THEN Append(F[i - 1], r[FIELDNAMES[i]])
            ELSE F[i - 1]
    IN  F[Len(FIELDNAMES)]

\* [row.get(k, "") for k in FIELDNAMES]
row_values_of(r) == [ i \in 1..Len(FIELDNAMES) |-> row_get(r, FIELDNAMES[i]) ]

\* log_to_csv that writes the header on every call
log_to_csv_header_always(file, r, fail) ==
    IF fail = "open"
    THEN [ file |-> file, ok |-> FALSE, msg |-> "[Errno 13] Permission denied" ]
    ELSE LET opened == [ exists |-> TRUE, lines |-> Append(file.lines, FIELDNAMES) ]
         IN  IF fail = "write"
             THEN [ file |-> opened, ok |-> FALSE, msg |-> "codec can't encode character" ]
             ELSE [ file |-> [ opened EXCEPT !.lines = Append(@, row_values_of(r)) ],
                    ok |-> TRUE, msg |-> "" ]

log_to_csv(file, r, fail) ==
    IF fail = "open"
    THEN [ file |-> file, ok |-> FALSE, msg |-> "[Errno 13] Permission denied" ]
    ELSE LET file_exists == file.exists
             opened == [ exists |-> TRUE,
                         lines |-> IF ~file_exists THEN Append(file.lines, FIELDNAMES)
                                   ELSE file.lines ]
         IN  IF fail = "write"
             THEN [ file |-> opened, ok |-> FALSE, msg |-> "codec can't encode character" ]
             ELSE [ file |-> [ opened EXCEPT !.lines = Append(@, row_values_of(r)) ],
                    ok |-> TRUE, msg |-> "" ]

CsvFails == { "none", "open", "write" }

(***************************************************************************)
(* Record logger: spreadsheet sink.                                        *)
(*                                                                         *)
(* The worksheet is [exists, rows]; a row of the grid is [opt, cells],     *)
(* opt the value input option it was written with; a grid row with no      *)
(* cells is empty.  env holds what the call depends on besides its         *)
(* arguments: whether gspread was imported, the state of the               *)
(* gcp_service_account secret ("ok", "absent", "malformed") and the remote *)
(* call that fails, if any (fail_at).  The remote API knows no spreadsheet *)
(* with an empty key.                                                      *)
(***************************************************************************)
NoSheet == [ exists |-> FALSE, rows |-> << >> ]
EmptyRow == [ opt |-> "", cells |-> << >> ]

RECURSIVE TrimCells(_)
\* a row's values as the API returns them: trailing empty cells dropped
TrimCells(cells) ==
    IF cells = << >> THEN << >>
    ELSE IF cells[Len(cells)] = "" THEN TrimCells(SubSeq(cells, 1, Len(cells) - 1))
    ELSE cells

\* ws.row_values(row) read with a 0-based row number
ws_row_values_off_by_one(ws, n) ==
    IF n + 1 <= Len(ws.rows) THEN TrimCells(ws.rows[n + 1].cells) ELSE << >>

\* ws.row_values(row)
ws_row_values(ws, n) ==
    IF n <= Len(ws.rows) THEN TrimCells(ws.rows[n].cells) ELSE << >>

\* the last row of the grid that holds a value (0: none)
LastDataRow(ws) ==
    LET used == { i \in 1..Len(ws.rows) : TrimCells(ws.rows[i].cells) # << >> }
    IN  IF used = {} THEN 0 ELSE CHOOSE i \in used : \A j \in used : j <= i

\* ws.append_row(values, value_input_option): the values go below the data
ws_append_row(ws, values, opt) ==
    [ ws EXCEPT !.rows = Append(SubSeq(ws.rows, 1, LastDataRow(ws)),
                                [ opt |-> opt, cells |-> values ]) ]

\* sh.add_worksheet(title, rows=1, cols=len(FIELDNAMES))
add_worksheet == [ exists |-> TRUE, rows |-> << EmptyRow >> ]

sheets_client_from_secrets(env) ==
    IF ~env.gspread_ready
    THEN [ ok |-> FALSE, err |-> "ConfigError",
           msg |-> "gspread/google-auth no estan instalados." ]
    ELSE IF env.secrets = "absent"
    THEN [ ok |-> FALSE, err |-> "ConfigError",
           msg |-> "Falta 'gcp_service_account' en st.secrets." ]
    ELSE IF env.secrets = "malformed"
    THEN [ ok |-> FALSE, err |-> "ConfigError",
           msg |-> "Service account info was not in the expected format" ]
    ELSE [ ok |-> TRUE, err |-> "", msg |-> "" ]

GsResult(ws, ok, err, msg, contacted, headers) ==
    [ sheet |-> ws, ok |-> ok, err |-> err, msg |-> msg, contacted |-> contacted,
      headers |-> headers ]

GsApiError(ws, what, headers) == GsResult(ws, FALSE, "APIError", what, TRUE, headers)

append_to_gsheet(spreadsheet_key, ws, r, env) ==
    LET gc == sheets_client_from_secrets(env)
    IN
    IF ~gc.ok THEN GsResult(ws, FALSE, gc.err, gc.msg, FALSE, 0)
    ELSE IF spreadsheet_key = "" THEN GsApiError(ws, "NOT_FOUND", 0)
    ELSE IF env.fail_at = "open_by_key" THEN GsApiError(ws, "PERMISSION_DENIED", 0)
    ELSE IF env.fail_at = "worksheet" THEN GsApiError(ws, "UNAVAILABLE", 0)
    ELSE
    LET missing == ~ws.exists
    IN
    IF missing /\ env.fail_at = "add_worksheet" THEN GsApiError(ws, "UNAVAILABLE", 0)
    ELSE
    LET ws1 == IF missing THEN add_worksheet ELSE ws
    IN
    IF missing /\ env.fail_at = "header" THEN GsApiError(ws1, "UNAVAILABLE", 0)
    ELSE
    LET ws2 == IF missing THEN ws_append_row(ws1, FIELDNAMES, "RAW") ELSE ws1
        h2  == IF missing THEN 1 ELSE 0
    IN
    IF env.fail_at = "row_values" THEN GsApiError(ws2, "UNAVAILABLE", h2)
    ELSE
    LET header == ws_row_values(ws2, 1)
    IN
    IF header = << >> /\ env.fail_at = "header" THEN GsApiError(ws2, "UNAVAILABLE", h2)
    ELSE
    LET ws3 == IF header = << >> THEN ws_append_row(ws2, FIELDNAMES, "RAW") ELSE ws2
        h3  == IF header = << >> THEN h2 + 1 ELSE h2
    IN
    IF env.fail_at = "append" THEN GsApiError(ws3, "UNAVAILABLE", h3)
    ELSE GsResult(ws_append_row(ws3, row_values_of(r), "USER_ENTERED"),
                  TRUE, "", "", TRUE, h3)

GsFailPoints ==
    { "none", "open_by_key", "worksheet", "add_worksheet", "header", "row_values",
      "append" }

SecretStates == { "ok", "absent", "malformed" }

RECURSIVE strip(_)
\* str.strip()
strip(s) ==
    IF Len(s) = 0 THEN s
    ELSE IF SubSeq(s, 1, 1) = " " THEN strip(SubSeq(s, 2, Len(s)))
    ELSE IF SubSeq(s, Len(s), Len(s)) = " " THEN strip(SubSeq(s, 1, Len(s) - 1))
    ELSE s

(***************************************************************************)
(* The script run.                                                         *)
(***************************************************************************)
Msg(level, text) == [ level |-> level, text |-> text ]

\* round(x, 2) of a length in metres, as ckm: a tie (5 m) falls on either
\* side, as the binary value of length_m / 1000.0 decides
round2(length_m) ==
    IF length_m % 10 < 5 THEN { length_m \div 10 }
    ELSE IF length_m % 10 > 5 THEN { length_m \div 10 + 1 }
    ELSE { length_m \div 10, length_m \div 10 + 1 }

\* str() of a float with at most two decimals, given in hundredths
py_float_str(c) ==
    ToString(c \div 100) \o "." \o
        (IF c % 10 = 0 THEN ToString((c % 100) \div 10)
         ELSE IF c % 100 < 10 THEN "0" \o ToString(c % 100)
         ELSE ToString(c % 100))

\* f"{price:.2f}" of a price in hundredths
py_fixed2(c) ==
    ToString(c \div 100) \o "." \o
        (IF c % 100 < 10 THEN "0" \o ToString(c % 100) ELSE ToString(c % 100))

\* compute_tariff returns a float in its last branch only, an int otherwise
price_is_float(distance_km, G) ==
    /\ distance_km > G.ZONA_1_KM * 100
    /\ distance_km > G.ZONA_2_KM * 100
    /\ distance_km > G.ZONA_3_KM * 100
    /\ distance_km > G.ZONA_4_KM * 100

NoCalc == [ done |-> FALSE, distancia_km |-> 0, dur |-> "", price |-> 0 ]
NoRow == [ k \in {} |-> "" ]
NoDest == [ called |-> FALSE, q |-> "", resp |-> GeoRaised, res |-> NoResult ]
NoRouteCall ==
    [ called |-> FALSE, destination |-> << 0, 0 >>, resp |-> RouteRaised, res |-> NoRoute ]
NothingShown == [ result |-> FALSE, price |-> "", map |-> "none", line |-> << >>,
                  marker |-> << 0, 0 >> ]
NoCsvLog == [ init |-> NoFile, rows |-> << >>, calls |-> 0, last |-> "" ]
NoGsLog ==
    [ before |-> NoSheet, calls |-> 0, r |-> NoRow,
      res |-> GsResult(NoSheet, FALSE, "", "", FALSE, 0) ]

\* the record built at lines 298-322
build_row(c, G, d, rt, ca) ==
    [ timestamp_iso |-> "2025-01-01T12:00:00+01:00",
      origin_address |-> c.origin_address,
      origin_lat |-> ToString(DEFAULT_ORIGIN_LAT),
      origin_lon |-> ToString(DEFAULT_ORIGIN_LON),
      dest_input_address |-> c.dest_address,
      dest_input_postal |-> c.dest_postal,
      dest_input_city |-> c.dest_city,
      dest_geocoded_title |-> d.title,
      dest_lat |-> ToString(d.access_lat),
      dest_lon |-> ToString(d.access_lon),
      distance_km |-> py_float_str(ca.distancia_km),
      duration_seconds |-> ToString(rt.duration_s),
      duration_human |-> ca.dur,
      price_eur |-> IF price_is_float(ca.distancia_km, G) THEN py_float_str(ca.price)
                    ELSE ToString(ca.price \div 100),
      zona_1_km |-> ToString(G.ZONA_1_KM), zona_2_km |-> ToString(G.ZONA_2_KM),
      zona_3_km |-> ToString(G.ZONA_3_KM), zona_4_km |-> ToString(G.ZONA_4_KM),
      precio_z1 |-> ToString(G.PRECIO_ZONA_1), precio_z2 |-> ToString(G.PRECIO_ZONA_2),
      precio_z3 |-> ToString(G.PRECIO_ZONA_3), precio_z4 |-> ToString(G.PRECIO_ZONA_4),
      precio_km_extra |-> ToString(G.PRECIO_POR_KM_EXTRA) \o ".0",
      truckHeight |-> TRUCK_PARAMS.truckHeight,
      truckWidth |-> TRUCK_PARAMS.truckWidth,
      truckLength |-> TRUCK_PARAMS.truckLength,
      truckWeight |-> TRUCK_PARAMS.truckWeight,
      truckAxleCount |-> TRUCK_PARAMS.truckAxleCount,
      truckType |-> TRUCK_PARAMS.truckType ]

\* the sidebar inputs: address fields at their defaults, the sink switches and
\* the spreadsheet key as the user sets them
SpreadsheetKeys == { "", "  ", "1AbC" }

SidebarInputs ==
    { [ origin_address |-> "C. de Servando Batanero, 67, 28017 Madrid",
        dest_address |-> "Calle Alcala 100", dest_postal |-> "", dest_city |-> "Madrid",
        log_csv |-> lc, gs_enable |-> ge, spreadsheet_key |-> IF ge THEN k ELSE "" ]
      : lc \in BOOLEAN, ge \in BOOLEAN, k \in SpreadsheetKeys }

AltTariff ==
    [ ZONA_1_KM |-> 2, ZONA_2_KM |-> 4, ZONA_3_KM |-> 4, ZONA_4_KM |-> 3,
      PRECIO_ZONA_1 |-> 10, PRECIO_ZONA_2 |-> 20, PRECIO_ZONA_3 |-> 30,
      PRECIO_ZONA_4 |-> 40, PRECIO_POR_KM_EXTRA |-> 2 ]

TariffInputsCore == { DefaultTariff, AltTariff }

Environments ==
    [ api_key : BOOLEAN, gspread_ready : BOOLEAN, secrets : SecretStates ]

\* st.stop() left out: the script goes on with the step that follows
st_stop_missing(following) == following

\* st.stop(): the script run ends here, whatever step follows
st_stop(following) == "stopped"

\* a sink block without its except clause: the exception ends the script run
sink_except_missing(ok, following) == IF ok THEN following ELSE "crashed"

\* the try/except around a sink call (lines 333-337, 340-350): the step that
\* follows is reached whether the call raised or not
sink_except(ok, following) == following

KeyWarning ==
    Msg("warning", "Configura tu HERE_API_KEY en **st.secrets** o variable de entorno HERE_API_KEY.")

\* lines 223-270 and 360-369: the page is drawn with go false
RenderIdle ==
    /\ pc = "start"
    /\ \E c \in SidebarInputs, G \in TariffInputsCore : cfg' = c /\ T' = G
    /\ msgs' = (IF ~host.api_key THEN << KeyWarning >> ELSE << >>)
                 \o << Msg("info", "Introduce un destino en la barra lateral y pulsa **Calcular ruta y precio**.") >>
    /\ shown' = [ NothingShown EXCEPT !.map = "default" ]
    /\ pc' = "idle"
    /\ UNCHANGED << host, dest, route, calc, row, events, csv_file, csv_log, sheet, gs_log >>

\* lines 223-277: the sidebar is read, the button was pressed, the key is checked
Go ==
    /\ pc = "start"
    /\ \E c \in SidebarInputs, G \in TariffInputsCore : cfg' = c /\ T' = G
    /\ IF ~host.api_key
       THEN /\ msgs' = << KeyWarning,
                          Msg("error", "Falta HERE_API_KEY. Anadelo en la seccion de secretos o como variable de entorno.") >>
            /\ pc' = st_stop("geocode")
       ELSE /\ msgs' = << >>
            /\ pc' = "geocode"
    /\ UNCHANGED << host, dest, route, calc, row, shown, events, csv_file, csv_log,
                    sheet, gs_log >>

\* lines 278-285
Geocode(Responses) ==
    /\ pc = "geocode"
    /\ \E resp \in Responses :
         LET res == geocode_address(cfg.dest_address, resp)
         IN  /\ dest' = [ called |-> TRUE,
                          q |-> geocode_query(cfg.dest_address, cfg.dest_postal,
                                              cfg.dest_city),
                          resp |-> resp, res |-> res ]
             /\ IF res.ok
                THEN /\ pc' = "route"
                     /\ msgs' = msgs
                ELSE /\ pc' = st_stop("route")
                     /\ msgs' = Append(msgs, Msg("error", "Error geocodificando: " \o res.msg))
    /\ events' = Append(events, "geocode")
    /\ UNCHANGED << host, cfg, T, route, calc, row, shown, csv_file, csv_log, sheet, gs_log >>

\* route_destination that takes the resolved position
route_destination_position(d) == << d.lat, d.lon >>

\* the destination handed to truck_route: (dest[0], dest[1])
route_destination(d) == << d.access_lat, d.access_lon >>

\* lines 287-292
Route(Responses) ==
    /\ pc = "route"
    /\ \E resp \in Responses :
         LET res == truck_route(resp)
         IN  /\ route' = [ called |-> TRUE, destination |-> route_destination(dest.res),
                           resp |-> resp, res |-> res ]
             /\ IF res.ok
                THEN /\ pc' = "tariff"
                     /\ msgs' = msgs
                ELSE /\ pc' = st_stop("tariff")
                     /\ msgs' = Append(msgs, Msg("error", "Error calculando ruta: " \o res.msg))
    /\ events' = Append(events, "route")
    /\ UNCHANGED << host, cfg, T, dest, calc, row, shown, csv_file, csv_log, sheet, gs_log >>

\* lines 294-322
Compute ==
    /\ pc = "tariff"
    /\ \E d \in round2(route.res.length_m) :
         LET ca == [ done |-> TRUE, distancia_km |-> d,
                     dur |-> human_duration(route.res.duration_s),
                     price |-> compute_tariff(d, T) ]
         IN  /\ calc' = ca
             /\ row' = build_row(cfg, T, dest.res, route.res, ca)
    /\ events' = Append(events, "tariff")
    /\ pc' = "display"
    /\ UNCHANGED << host, cfg, T, dest, route, shown, msgs, csv_file, csv_log, sheet, gs_log >>

\* lines 324-330
Display ==
    /\ pc = "display"
    /\ shown' = [ shown EXCEPT !.result = TRUE, !.price = py_fixed2(calc.price) ]
    /\ events' = Append(events, "display")
    /\ pc' = "csv"
    /\ UNCHANGED << host, cfg, T, dest, route, calc, row, msgs, csv_file, csv_log, sheet, gs_log >>

CSV_PATH == "logs/calculos_portes.csv"

\* one call log_to_csv(csv_path, r): the file afterwards, and the call noted
CsvCall(r, fail) ==
    LET res == log_to_csv(csv_file, r, fail)
    IN  /\ csv_file' = res.file
        /\ csv_log' = [ csv_log EXCEPT
                          !.rows = IF res.ok THEN Append(@, r) ELSE @,
                          !.calls = @ + 1,
                          !.last = IF res.ok THEN "ok" ELSE res.msg ]

\* lines 332-337
CsvSink ==
    /\ pc = "csv"
    /\ IF cfg.log_csv
       THEN \E fail \in CsvFails :
              LET res == log_to_csv(csv_file, row, fail)
              IN  /\ CsvCall(row, fail)
                  /\ events' = Append(events, "csv")
                  /\ msgs' = Append(msgs,
                        IF res.ok THEN Msg("success", "Guardado en CSV: " \o CSV_PATH)
                        ELSE Msg("warning", "No se pudo registrar en CSV (" \o CSV_PATH
                                              \o "): " \o res.msg))
                  /\ pc' = sink_except(res.ok, "gsheet")
       ELSE /\ pc' = "gsheet"
            /\ UNCHANGED << csv_file, csv_log, events, msgs >>
    /\ UNCHANGED << host, cfg, T, dest, route, calc, row, shown, sheet, gs_log >>

\* one call append_to_gsheet(key, name, r): the worksheet afterwards, and the
\* call noted
GsCall(key, r, e) ==
    LET res == append_to_gsheet(key, sheet, r, e)
    IN  /\ sheet' = res.sheet
        /\ gs_log' = [ before |-> sheet, calls |-> gs_log.calls + 1, r |-> r, res |-> res ]

GsEnv(fail_at) ==
    [ gspread_ready |-> host.gspread_ready, secrets |-> host.secrets, fail_at |-> fail_at ]

\* the sink block that calls append_to_gsheet whatever the key is
gs_key_given_unchecked(key) == TRUE

\* line 343: the spreadsheet key is not blank
gs_key_given(key) == strip(key) # ""

\* lines 339-350
GsSink ==
    /\ pc = "gsheet"
    /\ IF ~cfg.gs_enable
       THEN /\ pc' = "map"
            /\ UNCHANGED << sheet, gs_log, events, msgs >>
       ELSE IF ~host.gspread_ready
       THEN /\ msgs' = Append(msgs,
                  Msg("error", "Faltan dependencias gspread/google-auth (instalalas)."))
            /\ pc' = "map"
            /\ UNCHANGED << sheet, gs_log, events >>
       ELSE IF ~gs_key_given(cfg.spreadsheet_key)
       THEN /\ msgs' = Append(msgs, Msg("error", "Debes indicar el Spreadsheet key (ID)."))
            /\ pc' = "map"
            /\ UNCHANGED << sheet, gs_log, events >>
       ELSE \E fail_at \in GsFailPoints :
              LET res == append_to_gsheet(strip(cfg.spreadsheet_key), sheet, row,
                                          GsEnv(fail_at))
              IN  /\ GsCall(strip(cfg.spreadsheet_key), row, GsEnv(fail_at))
                  /\ events' = Append(events, "gsheet")
                  /\ msgs' = IF res.ok
                             THEN msgs \o << Msg("success", "Fila anadida a Google Sheets"),
                                             Msg("caption", "Si ves 'PERMISSION_DENIED', comparte el Sheet con el Service Account.") >>
                             ELSE Append(msgs, Msg("warning",
                                     "No se pudo subir a Google Sheets: " \o res.msg))
                  /\ pc' = sink_except(res.ok, "map")
    /\ UNCHANGED << host, cfg, T, dest, route, calc, row, shown, csv_file, csv_log >>

\* lines 352-359
RenderMap ==
    /\ pc = "map"
    /\ shown' = [ shown EXCEPT !.map = "route", !.line = route.res.coords,
                               !.marker = << dest.res.access_lat, dest.res.access_lon >> ]
    /\ events' = Append(events, "map")
    /\ pc' = "done"
    /\ UNCHANGED << host, cfg, T, dest, route, calc, row, msgs, csv_file, csv_log,
                    sheet, gs_log >>

(***************************************************************************)
(* Records and stored states the specifications start from.                *)
(***************************************************************************)
SampleInputs ==
    [ origin_address |-> "C. de Servando Batanero, 67, 28017 Madrid",
      dest_address |-> "Calle Alcala 100", dest_postal |-> "", dest_city |-> "Madrid",
      log_csv |-> TRUE, gs_enable |-> FALSE, spreadsheet_key |-> "" ]

FullRecord ==
    build_row(SampleInputs, DefaultTariff,
              [ NoResult EXCEPT !.ok = TRUE, !.lat = 45, !.lon = 15, !.title = "Somewhere",
                                !.access_lat = 41, !.access_lon = 11 ],
              [ NoRoute EXCEPT !.ok = TRUE, !.length_m = 2500, !.duration_s = 125 ],
              [ done |-> TRUE, distancia_km |-> 250, dur |-> "2m 5s", price |-> 2500 ])

PartialRecord ==
    [ k \in { "timestamp_iso", "price_eur", "truckType" } |->
        IF k = "timestamp_iso" THEN "2025-02-02T08:00:00+01:00"
        ELSE IF k = "price_eur" THEN "35" ELSE "delivery" ]

ExtraRecord ==
    [ k \in { "origin_address", "distance_km", "note" } |->
        IF k = "origin_address" THEN "Depot" ELSE IF k = "distance_km" THEN "4.2"
        ELSE "not a field" ]

SheetRecords == { FullRecord, PartialRecord, ExtraRecord }
CsvRecords == SheetRecords \cup { NoRow }

StoredCsv == [ exists |-> TRUE, lines |-> << FIELDNAMES, row_values_of(FullRecord) >> ]

CsvInitFiles ==
    { NoFile, StoredCsv,
      [ exists |-> TRUE, lines |-> << >> ],
      [ exists |-> TRUE, lines |-> << << "a", "b" >> >> ] }

HeaderRow == [ opt |-> "RAW", cells |-> FIELDNAMES ]
DataRow(r) == [ opt |-> "USER_ENTERED", cells |-> row_values_of(r) ]
ForeignRow == [ opt |-> "USER_ENTERED", cells |-> << "x", "y" >> ]

SheetInits ==
    { NoSheet,
      [ exists |-> TRUE, rows |-> << >> ],
      [ exists |-> TRUE, rows |-> << EmptyRow >> ],
      [ exists |-> TRUE, rows |-> << EmptyRow, ForeignRow >> ],
      [ exists |-> TRUE, rows |-> << ForeignRow >> ],
      [ exists |-> TRUE, rows |-> << HeaderRow >> ],
      [ exists |-> TRUE, rows |-> << HeaderRow, DataRow(FullRecord), EmptyRow >> ] }

(***************************************************************************)
(* Spec: one script run, from any stored state of the two sinks.           *)
(***************************************************************************)
Init ==
    /\ pc = "start"
    /\ host \in Environments
    /\ cfg = SampleInputs
    /\ T = DefaultTariff
    /\ dest = NoDest
    /\ route = NoRouteCall
    /\ calc = NoCalc
    /\ row = NoRow
    /\ shown = NothingShown
    /\ msgs = << >>
    /\ events = << >>
    /\ csv_file \in { NoFile, StoredCsv }
    /\ csv_log = [ NoCsvLog EXCEPT !.init = csv_file ]
    /\ sheet \in { NoSheet, [ exists |-> TRUE, rows |-> << EmptyRow >> ],
                   [ exists |-> TRUE, rows |-> << HeaderRow, DataRow(FullRecord) >> ] }
    /\ gs_log = [ NoGsLog EXCEPT !.before = sheet ]

Next ==
    \/ RenderIdle
    \/ Go
    \/ Geocode(GeoResponsesCore)
    \/ Route(RouteResponsesCore)
    \/ Compute
    \/ Display
    \/ CsvSink
    \/ GsSink
    \/ RenderMap

Spec == Init /\ [][Next]_vars

(***************************************************************************)
(* SpecCompute: the tariff step on its own, from every routed distance,    *)
(* tariff table and duration within the bounds.                            *)
(***************************************************************************)
SmallTariffs ==
    { [ ZONA_1_KM |-> z1, ZONA_2_KM |-> z2, ZONA_3_KM |-> z3, ZONA_4_KM |-> z4,
        PRECIO_ZONA_1 |-> 10, PRECIO_ZONA_2 |-> 20, PRECIO_ZONA_3 |-> 30,
        PRECIO_ZONA_4 |-> 40, PRECIO_POR_KM_EXTRA |-> x ]
      : z1 \in 0..MaxZone, z2 \in 0..MaxZone, z3 \in 0..MaxZone, z4 \in 0..MaxZone,
        x \in 0..MaxExtra }

SampleDest ==
    [ called |-> TRUE, q |-> "Calle Alcala 100, Madrid", resp |-> GeoRaised,
      res |-> [ NoResult EXCEPT !.ok = TRUE, !.lat = 45, !.lon = 15, !.title = "Somewhere",
                                !.access_lat = 41, !.access_lon = 11 ] ]

Routed(length_m, duration_s) ==
    [ called |-> TRUE, destination |-> << 41, 11 >>, resp |-> RouteRaised,
      res |-> [ NoRoute EXCEPT !.ok = TRUE, !.coords = pl_decode("enc:ab"),
                               !.length_m = length_m, !.duration_s = duration_s ] ]

InitCompute ==
    /\ pc = "tariff"
    /\ host = [ api_key |-> TRUE, gspread_ready |-> TRUE, secrets |-> "ok" ]
    /\ cfg = SampleInputs
    /\ dest = SampleDest
    /\ \/ /\ T = DefaultTariff
          /\ route \in { Routed(5 * k, 45) : k \in 0..(2 * MaxDistCkm) }
       \/ /\ T \in SmallTariffs
          /\ route \in { Routed(500 * k, 45) : k \in 0..(2 * (MaxZone + 1)) }
       \/ /\ T = DefaultTariff
          /\ route \in { Routed(2500, t) : t \in 0..MaxSeconds }
    /\ calc = NoCalc
    /\ row = NoRow
    /\ shown = NothingShown
    /\ msgs = << >>
    /\ events = << "geocode", "route" >>
    /\ csv_file = NoFile
    /\ csv_log = NoCsvLog
    /\ sheet = NoSheet
    /\ gs_log = NoGsLog

NextCompute == Compute

SpecCompute == InitCompute /\ [][NextCompute]_vars

(***************************************************************************)
(* SpecGeo, SpecRoute: the geocoding step and the routing step on their    *)
(* own, over every provider response of the model.                         *)
(***************************************************************************)
InitGeo ==
    /\ pc = "geocode"
    /\ host = [ api_key |-> TRUE, gspread_ready |-> TRUE, secrets |-> "ok" ]
    /\ cfg \in { SampleInputs, [ SampleInputs EXCEPT !.dest_address = "Gran Via 1" ] }
    /\ T = DefaultTariff
    /\ dest = NoDest
    /\ route = NoRouteCall
    /\ calc = NoCalc
    /\ row = NoRow
    /\ shown = NothingShown
    /\ msgs = << >>
    /\ events = << >>
    /\ csv_file = NoFile
    /\ csv_log = NoCsvLog
    /\ sheet = NoSheet
    /\ gs_log = NoGsLog

NextGeo == Geocode(GeoResponses)

SpecGeo == InitGeo /\ [][NextGeo]_vars

InitRoute ==
    /\ pc = "route"
    /\ host = [ api_key |-> TRUE, gspread_ready |-> TRUE, secrets |-> "ok" ]
    /\ cfg = SampleInputs
    /\ T = DefaultTariff
    /\ dest \in { SampleDest,
                  [ SampleDest EXCEPT !.res.access_lat = 45, !.res.access_lon = 15 ] }
    /\ route = NoRouteCall
    /\ calc = NoCalc
    /\ row = NoRow
    /\ shown = NothingShown
    /\ msgs = << >>
    /\ events = << "geocode" >>
    /\ csv_file = NoFile
    /\ csv_log = NoCsvLog
    /\ sheet = NoSheet
    /\ gs_log = NoGsLog

NextRoute == Route(RouteResponses)

SpecRoute == InitRoute /\ [][NextRoute]_vars

(***************************************************************************)
(* SpecCsv, SpecSheet: calls of log_to_csv and of append_to_gsheet in a    *)
(* row, with any record, from any stored state.                            *)
(***************************************************************************)
InitSinks ==
    /\ pc = "sink"
    /\ cfg = SampleInputs
    /\ T = DefaultTariff
    /\ dest = NoDest
    /\ route = NoRouteCall
    /\ calc = NoCalc
    /\ row = NoRow
    /\ shown = NothingShown
    /\ msgs = << >>
    /\ events = << >>

InitCsv ==
    /\ InitSinks
    /\ host = [ api_key |-> TRUE, gspread_ready |-> TRUE, secrets |-> "ok" ]
    /\ csv_file \in CsvInitFiles
    /\ csv_log = [ NoCsvLog EXCEPT !.init = csv_file ]
    /\ sheet = NoSheet
    /\ gs_log = NoGsLog

LogToCsv ==
    /\ pc = "sink"
    /\ csv_log.calls < MaxCalls
    /\ \E r \in CsvRecords, fail \in CsvFails : CsvCall(r, fail)
    /\ UNCHANGED << pc, host, cfg, T, dest, route, calc, row, shown, msgs, events,
                    sheet, gs_log >>

NextCsv == LogToCsv

SpecCsv == InitCsv /\ [][NextCsv]_vars

InitSheet ==
    /\ InitSinks
    /\ host \in { h \in Environments : h.api_key }
    /\ csv_file = NoFile
    /\ csv_log = NoCsvLog
    /\ sheet \in SheetInits
    /\ gs_log = [ NoGsLog EXCEPT !.before = sheet ]

AppendToGsheet ==
    /\ pc = "sink"
    /\ gs_log.calls < MaxSheetCalls
    /\ \E key \in { "", "1AbC" }, r \in SheetRecords, fail_at \in GsFailPoints :
          GsCall(key, r, GsEnv(fail_at))
    /\ UNCHANGED << pc, host, cfg, T, dest, route, calc, row, shown, msgs, events,
                    csv_file, csv_log >>

NextSheet == AppendToGsheet

SpecSheet == InitSheet /\ [][NextSheet]_vars

(***************************************************************************)
(* Properties.                                                             *)
(***************************************************************************)
Zones(G) == << G.ZONA_1_KM, G.ZONA_2_KM, G.ZONA_3_KM, G.ZONA_4_KM >>
Prices(G) == << G.PRECIO_ZONA_1, G.PRECIO_ZONA_2, G.PRECIO_ZONA_3, G.PRECIO_ZONA_4 >>

\* C1: once the tariff step has run, the price is that of the first band, in
\* the order zone 1, 2, 3, 4, whose breakpoint is at or above the distance
\* (a distance equal to a breakpoint gets that band's price); beyond the
\* zone-4 breakpoint it is the zone-4 price plus the distance beyond the
\* zone-2 breakpoint times the per-km rate; for the default table 25 km
\* costs 90 euros.
C1_TariffFirstBand ==
    calc.done =>
        LET d == calc.distancia_km
            hit == { i \in 1..4 : d <= Zones(T)[i] * 100 }
        IN  /\ \A i \in hit :
                  (\A j \in hit : i <= j) => calc.price = Prices(T)[i] * 100
            /\ \A i \in 1..4 : d = Zones(T)[i] * 100 /\ (\A j \in 1..(i - 1) : j \notin hit)
                                  => calc.price = Prices(T)[i] * 100
            /\ hit = {} =>
                  calc.price = T.PRECIO_ZONA_4 * 100
                                 + (d - T.ZONA_2_KM * 100) * T.PRECIO_POR_KM_EXTRA
            /\ (T = DefaultTariff /\ d = 2500) => calc.price = 9000

\* C1 witness: the default table has priced 25 km at 90 euros, past zone 4
C1_Witness ==
    /\ calc.done
    /\ T = DefaultTariff
    /\ calc.distancia_km = 2500
    /\ calc.distancia_km > T.ZONA_4_KM * 100
    /\ calc.price = 9000

\* C10: once the tariff step has run, the duration text is made of the
\* hours h, minutes m in 0..59 and seconds s in 0..59 with
\* 3600 h + 60 m + s = t: "{h}h {m}m {s}s" when h > 0, "{m}m {s}s" when
\* h = 0 and m > 0, "{s}s" otherwise; 45 gives "45s", 125 "2m 5s" and 3725
\* "1h 2m 5s".
C10_HumanDuration ==
    calc.done =>
        LET t == route.res.duration_s
        IN  /\ \E h \in 0..(t \div 3600), m \in 0..59 :
                  LET s == t - 3600 * h - 60 * m
                  IN  /\ s \in 0..59
                      /\ calc.dur =
                           (IF h > 0
                            THEN ToString(h) \o "h " \o ToString(m) \o "m " \o ToString(s) \o "s"
                            ELSE IF m > 0 THEN ToString(m) \o "m " \o ToString(s) \o "s"
                            ELSE ToString(s) \o "s")
            /\ t = 45 => calc.dur = "45s"
            /\ t = 125 => calc.dur = "2m 5s"
            /\ t = 3725 => calc.dur = "1h 2m 5s"

\* C10 witness: 3725 seconds were formatted with hours, minutes and seconds
C10_Witness ==
    /\ calc.done
    /\ route.res.duration_s = 3725
    /\ calc.dur = "1h 2m 5s"

\* the first item of the geocoding response, and the first entry of its
\* access list
FirstItem == dest.resp.items[1]
FirstAccess == FirstItem.access[1]
ItemsGiven == dest.resp.json_ok /\ dest.resp.has_items /\ dest.resp.items # << >>
AccessGiven == FirstItem.has_access /\ FirstItem.access # << >>

\* C7 as stated, read over the responses whose body is a JSON object: every
\* response is a transport error (status other than 200), a not-found error
\* (status 200, items missing or empty) or else a success that returns the
\* first item's position, the first entry of its access list (the position
\* when there is none) and its title (the input address when absent).
C7_AsStated ==
    (dest.called /\ ~dest.resp.raised /\ dest.resp.json_ok) =>
        IF dest.resp.status_code # 200 THEN dest.res.err = "TransportError"
        ELSE IF ~ItemsGiven THEN dest.res.err = "NotFoundError"
        ELSE /\ dest.res.ok
             /\ << dest.res.lat, dest.res.lon >> = << FirstItem.lat, FirstItem.lng >>
             /\ << dest.res.access_lat, dest.res.access_lon >> =
                   (IF AccessGiven THEN << FirstAccess.lat, FirstAccess.lng >>
                    ELSE << FirstItem.lat, FirstItem.lng >>)
             /\ dest.res.title =
                   (IF FirstItem.has_title THEN FirstItem.title ELSE cfg.dest_address)

\* C7: every response ends in exactly one outcome, decided in this order:
\* a status other than 200 is a transport error whatever the body holds (its
\* message gives the status and the body); a 200 body that is not a JSON
\* object ends in the parser's error; a body with the items missing or empty
\* is a not-found error; a first item without a position ends in a key
\* error; otherwise the call succeeds with the first item only: its
\* position, the latitude and the longitude of the first entry of its access
\* list, each replaced by the position's when the entry lacks it (the
\* position when the list is absent or empty), and its title (the input
\* address when absent).
C7_GeocodeOutcome ==
    (dest.called /\ ~dest.resp.raised) =>
        /\ dest.res.ok = (dest.res.err = "")
        /\ IF dest.resp.status_code # 200
           THEN /\ dest.res.err = "TransportError"
                /\ dest.res.msg = "Geocoding failed: " \o ToString(dest.resp.status_code)
                                     \o " - " \o dest.resp.text
           ELSE IF ~dest.resp.json_ok THEN dest.res.err = "JSONDecodeError"
           ELSE IF ~ItemsGiven THEN dest.res.err = "NotFoundError"
           ELSE IF ~FirstItem.has_position THEN dest.res.err = "KeyError"
           ELSE /\ dest.res.ok
                /\ << dest.res.lat, dest.res.lon >> = << FirstItem.lat, FirstItem.lng >>
                /\ AccessGiven =>
                     /\ dest.res.access_lat =
                          (IF FirstAccess.has_lat THEN FirstAccess.lat ELSE FirstItem.lat)
                     /\ dest.res.access_lon =
                          (IF FirstAccess.has_lng THEN FirstAccess.lng ELSE FirstItem.lng)
                /\ ~AccessGiven =>
                     << dest.res.access_lat, dest.res.access_lon >>
                        = << dest.res.lat, dest.res.lon >>
                /\ dest.res.title =
                     (IF FirstItem.has_title THEN FirstItem.title ELSE cfg.dest_address)

\* C7 witness: a response with two items, the first with two access entries,
\* was resolved from the first item and its first access entry
C7_Witness ==
    /\ dest.called
    /\ dest.res.ok
    /\ Len(dest.resp.items) = 2
    /\ Len(FirstItem.access) = 2
    /\ << dest.res.access_lat, dest.res.access_lon >> = << FirstAccess.lat, FirstAccess.lng >>
    /\ << dest.res.access_lat, dest.res.access_lon >> # << dest.res.lat, dest.res.lon >>

\* the first route of the routing response and its first section
RoutesGiven == route.resp.json_ok /\ route.resp.has_routes /\ route.resp.routes # << >>
FirstRoute == route.resp.routes[1]
SectionGiven == FirstRoute.has_sections /\ FirstRoute.sections # << >>
FirstSection == FirstRoute.sections[1]
Taxonomy ==
    { "TransportError", "NotFoundError", "NoRouteError", "InvalidPolylineError",
      "ConfigError" }

\* C8 as stated, read over the responses whose body is a JSON object: every
\* response ends in a route result or an error of the taxonomy: transport
\* error (status other than 200), no-route error (status 200, zero routes),
\* invalid-polyline error (the first route's first section has a polyline
\* that does not decode), otherwise the decoded coordinates, length and
\* duration of the first route's first section.
C8_AsStated ==
    (route.called /\ ~route.resp.raised /\ route.resp.json_ok) =>
        /\ route.res.ok \/ route.res.err \in Taxonomy
        /\ IF route.resp.status_code # 200 THEN route.res.err = "TransportError"
           ELSE IF ~RoutesGiven THEN route.res.err = "NoRouteError"
           ELSE IF SectionGiven /\ FirstSection.has_polyline
                     /\ ~pl_decodable(FirstSection.polyline)
           THEN route.res.err = "InvalidPolylineError"
           ELSE /\ route.res.ok
                /\ route.res.coords = pl_decode(FirstSection.polyline)
                /\ route.res.length_m = FirstSection.length
                /\ route.res.duration_s = FirstSection.duration

\* the first route has a first section with a summary (length and duration)
\* and a polyline
SectionComplete ==
    /\ SectionGiven
    /\ FirstSection.has_summary /\ FirstSection.has_length /\ FirstSection.has_duration
    /\ FirstSection.has_polyline

\* C8: a status other than 200 is a transport error; a 200 body with zero
\* routes is a no-route error; when the first route has a first section
\* that carries a summary with length and duration and a polyline, a
\* polyline that does not decode is an invalid-polyline error and otherwise
\* the call returns the decoded coordinates, length and duration of that
\* section only; every other 200 response (a body that is not a JSON object,
\* a first route without sections, a first section that lacks one of those
\* keys) ends in an error outside the taxonomy.
C8_RouteOutcome ==
    (route.called /\ ~route.resp.raised) =>
        /\ route.res.ok = (route.res.err = "")
        /\ IF route.resp.status_code # 200
           THEN /\ route.res.err = "TransportError"
                /\ route.res.msg = "Routing failed: " \o ToString(route.resp.status_code)
                                      \o " - " \o route.resp.text
           ELSE IF ~route.resp.json_ok THEN route.res.err = "JSONDecodeError"
           ELSE IF ~RoutesGiven THEN route.res.err = "NoRouteError"
           ELSE IF ~SectionComplete
           THEN /\ ~route.res.ok
                /\ route.res.err \in { "KeyError", "IndexError" }
           ELSE IF ~pl_decodable(FirstSection.polyline)
           THEN route.res.err = "InvalidPolylineError"
           ELSE /\ route.res.ok
                /\ route.res.coords = pl_decode(FirstSection.polyline)
                /\ route.res.length_m = FirstSection.length
                /\ route.res.duration_s = FirstSection.duration

\* C8 witness: a response with two routes, the first with two sections, gave
\* the first section of the first route
C8_Witness ==
    /\ route.called
    /\ route.res.ok
    /\ Len(route.resp.routes) = 2
    /\ Len(FirstRoute.sections) = 2
    /\ route.res.length_m = FirstSection.length
    /\ route.res.length_m # FirstRoute.sections[2].length
    /\ route.res.coords = pl_decode(FirstSection.polyline)

\* the line log_to_csv writes for record r: one cell per field, in FIELDNAMES
\* order, empty for a field r lacks
CsvLineOf(line, r) ==
    /\ Len(line) = Len(FIELDNAMES)
    /\ \A j \in 1..Len(FIELDNAMES) :
          line[j] = (IF FIELDNAMES[j] \in DOMAIN r THEN r[FIELDNAMES[j]] ELSE "")

IsPrefix(a, b) == Len(a) <= Len(b) /\ SubSeq(b, 1, Len(a)) = a

\* C4: starting from a path with no file, after n >= 1 successful
\* log_to_csv calls the file holds the FIELDNAMES header as its first line and
\* only there, then exactly n lines, one per call in call order, each with
\* its cells in FIELDNAMES order and empty for the fields its record lacks;
\* and every call, from any file, only appends: the lines already in the
\* file stay as they are, a file that exists gets no header.
C4_CsvHeaderOnceRowsAppended ==
    /\ [] ( (csv_log.init = NoFile /\ Len(csv_log.rows) >= 1) =>
              /\ csv_file.exists
              /\ Len(csv_file.lines) = 1 + Len(csv_log.rows)
              /\ csv_file.lines[1] = FIELDNAMES
              /\ \A i \in 1..Len(csv_log.rows) :
                    /\ CsvLineOf(csv_file.lines[i + 1], csv_log.rows[i])
                    /\ csv_file.lines[i + 1] # FIELDNAMES )
    /\ [][ /\ IsPrefix(csv_file.lines, csv_file'.lines)
           /\ csv_file.exists => csv_file'.exists
           /\ csv_file.exists =>
                 \A i \in (Len(csv_file.lines) + 1)..Len(csv_file'.lines) :
                     csv_file'.lines[i] # FIELDNAMES
           /\ Len(csv_file'.lines) <= Len(csv_file.lines) + 2 ]_vars

\* C4 witness: two calls on a fresh path, the first with a record that lacks
\* fields, left the header and two lines
C4_Witness ==
    /\ csv_log.init = NoFile
    /\ Len(csv_log.rows) = 2
    /\ csv_log.rows[1] = PartialRecord
    /\ csv_log.rows[2] = FullRecord
    /\ csv_file.lines = << FIELDNAMES, row_values_of(PartialRecord), row_values_of(FullRecord) >>

\* the rows of a grid that hold a value
HasValue(r) == \E i \in 1..Len(r.cells) : r.cells[i] # ""
DataRows(rows) == SelectSeq(rows, HasValue)
IsHeader(r) == r.cells = FIELDNAMES
HeaderCount(rows) == Cardinality({ i \in 1..Len(rows) : IsHeader(rows[i]) })

\* the worksheet before the call was absent or had an empty first row
FirstRowEmpty(ws) == ~ws.exists \/ ws.rows = << >> \/ ~HasValue(ws.rows[1])

\* C5: after a successful append_to_gsheet call the worksheet exists; the
\* call wrote the header exactly once when the worksheet was absent or its
\* first row was empty and not at all when its first row held a value; the
\* rows that were there are kept, in order, and after them come the header
\* (when written) and exactly one row, the record's values in FIELDNAMES
\* order, entered as the user would.
C5_SheetHeaderOnceRowAppended ==
    (gs_log.calls >= 1 /\ gs_log.res.ok) =>
        LET before == gs_log.before
            wrote == IF FirstRowEmpty(before) THEN 1 ELSE 0
            old == DataRows(before.rows)
            new == DataRows(sheet.rows)
        IN  /\ sheet.exists
            /\ gs_log.res.headers = wrote
            /\ HeaderCount(sheet.rows) = HeaderCount(before.rows) + wrote
            /\ \A i \in 1..Len(before.rows) :
                  HasValue(before.rows[i]) =>
                      i <= Len(sheet.rows) /\ sheet.rows[i] = before.rows[i]
            /\ Len(new) = Len(old) + wrote + 1
            /\ IsPrefix(old, new)
            /\ wrote = 1 => new[Len(old) + 1] = [ opt |-> "RAW", cells |-> FIELDNAMES ]
            /\ sheet.rows[Len(sheet.rows)] = new[Len(new)]
            /\ new[Len(new)].opt = "USER_ENTERED"
            /\ CsvLineOf(new[Len(new)].cells, gs_log.r)

\* C5 witness: a successful call on an absent worksheet left the header and
\* one row
C5_Witness ==
    /\ gs_log.calls >= 1
    /\ gs_log.res.ok
    /\ ~gs_log.before.exists
    /\ sheet.rows = << HeaderRow, DataRow(gs_log.r) >>

EndsWith(text, tail) ==
    Len(tail) <= Len(text) /\ SubSeq(text, Len(text) - Len(tail) + 1, Len(text)) = tail

Has(seq, x) == \E i \in 1..Len(seq) : seq[i] = x

GeocodeFailed == dest.called /\ ~dest.res.ok
RouteFailed == route.called /\ ~route.res.ok

\* C2: when the geocoding call or the routing call has failed, the run has
\* stopped there; the last message is an error that ends with the cause; no
\* price was computed or shown, no route drawn, no record built, and neither
\* sink was called or changed; after a geocoding failure no routing request
\* was made.
C2_FailureAborts ==
    (GeocodeFailed \/ RouteFailed) =>
        LET cause == IF GeocodeFailed THEN dest.res.msg ELSE route.res.msg
        IN  /\ pc = "stopped"
            /\ msgs # << >>
            /\ msgs[Len(msgs)].level = "error"
            /\ cause # "" /\ EndsWith(msgs[Len(msgs)].text, cause)
            /\ GeocodeFailed => ~route.called /\ ~Has(events, "route")
            /\ ~calc.done
            /\ row = NoRow
            /\ ~shown.result /\ shown.price = ""
            /\ shown.map = "none" /\ shown.line = << >>
            /\ \A e \in { "tariff", "display", "csv", "gsheet", "map" } : ~Has(events, e)
            /\ csv_log.calls = 0 /\ csv_file = csv_log.init
            /\ gs_log.calls = 0 /\ sheet = gs_log.before

\* C2 witness: geocoding succeeded, the provider then found no route, and
\* the run stopped with that error
C2_Witness ==
    /\ pc = "stopped"
    /\ dest.called /\ dest.res.ok
    /\ RouteFailed
    /\ route.res.err = "NoRouteError"
    /\ msgs = << Msg("error", "Error calculando ruta: No route found.") >>

CsvFailed == csv_log.calls = 1 /\ csv_log.last # "ok"
GsFailed == gs_log.calls = 1 /\ ~gs_log.res.ok

\* C3: once the price is computed and shown, a CSV call that failed leaves
\* its own warning and the run goes on to the spreadsheet step, where the
\* spreadsheet call is made when that sink is enabled and set up; a
\* spreadsheet call that failed leaves its own warning and the run goes on
\* to the map; whatever the two sinks did, the price stays shown, the run
\* does not end at a sink, and the finished run shows the route on the map.
C3_SinksBestEffort ==
    /\ CsvFailed =>
          /\ Has(msgs, Msg("warning", "No se pudo registrar en CSV (" \o CSV_PATH \o "): "
                                        \o csv_log.last))
          /\ pc \in { "gsheet", "map", "done" }
          /\ pc = "gsheet" => ENABLED GsSink
          /\ (pc \in { "map", "done" } /\ cfg.gs_enable /\ host.gspread_ready
                /\ strip(cfg.spreadsheet_key) # "") => gs_log.calls = 1
    /\ GsFailed =>
          /\ Has(msgs, Msg("warning", "No se pudo subir a Google Sheets: " \o gs_log.res.msg))
          /\ pc \in { "map", "done" }
          /\ pc = "map" => ENABLED RenderMap
    /\ (CsvFailed /\ GsFailed) =>
          \E i, j \in 1..Len(msgs) :
             /\ i < j
             /\ msgs[i].level = "warning" /\ msgs[j].level = "warning"
             /\ msgs[i].text # msgs[j].text
    /\ (csv_log.calls = 1 \/ gs_log.calls = 1) =>
          /\ pc \in { "gsheet", "map", "done" }
          /\ calc.done
          /\ shown.result /\ shown.price = py_fixed2(calc.price)
    /\ (pc = "done" /\ calc.done) =>
          /\ shown.result /\ shown.price = py_fixed2(calc.price)
          /\ shown.map = "route" /\ shown.line = route.res.coords

\* C3 witness: both sinks failed, each left its warning, and the run
\* finished with the price and the route on the page
C3_Witness ==
    /\ pc = "done"
    /\ CsvFailed /\ GsFailed
    /\ gs_log.res.msg = "PERMISSION_DENIED"
    /\ shown.result /\ shown.map = "route"
    /\ Len(msgs) = 2

\* C6: with the spreadsheet sink enabled and the service-account secret
\* absent or malformed, or the spreadsheet key empty or blank, the sink step
\* ends without any remote call and without any row added: a blank key is
\* refused before append_to_gsheet is called (an error message), bad
\* credentials make the call fail with a configuration error (a warning that
\* ends with the cause); the price stays shown.
C6_SheetConfigError ==
    (pc \in { "map", "done" } /\ cfg.gs_enable
       /\ (host.secrets # "ok" \/ strip(cfg.spreadsheet_key) = "")) =>
        /\ sheet = gs_log.before
        /\ ~gs_log.res.contacted /\ ~gs_log.res.ok
        /\ ~Has(msgs, Msg("success", "Fila anadida a Google Sheets"))
        /\ calc.done /\ shown.result /\ shown.price = py_fixed2(calc.price)
        /\ LET last == msgs[Len(msgs)]
           IN  /\ msgs # << >>
               /\ ~host.gspread_ready =>
                     /\ gs_log.calls = 0
                     /\ last = Msg("error", "Faltan dependencias gspread/google-auth (instalalas).")
               /\ (host.gspread_ready /\ strip(cfg.spreadsheet_key) = "") =>
                     /\ gs_log.calls = 0 /\ ~Has(events, "gsheet")
                     /\ last = Msg("error", "Debes indicar el Spreadsheet key (ID).")
               /\ (host.gspread_ready /\ strip(cfg.spreadsheet_key) # "") =>
                     /\ gs_log.calls = 1
                     /\ gs_log.res.err = "ConfigError"
                     /\ last.level = "warning"
                     /\ gs_log.res.msg # "" /\ EndsWith(last.text, gs_log.res.msg)

\* C6 witness: a blank spreadsheet key, with good credentials, was refused
\* and the run finished
C6_Witness ==
    /\ pc = "done"
    /\ cfg.gs_enable /\ cfg.spreadsheet_key = "  "
    /\ host.gspread_ready /\ host.secrets = "ok"
    /\ gs_log.calls = 0
    /\ Has(msgs, Msg("error", "Debes indicar el Spreadsheet key (ID)."))
    /\ shown.result

StepOrder == << "geocode", "route", "tariff", "display", "csv", "gsheet", "map" >>
Rank(e) == CHOOSE i \in 1..Len(StepOrder) : StepOrder[i] = e

\* C9: the steps of a run happen in the order geocode, route, tariff,
\* display, CSV sink, spreadsheet sink, map, each at most once; the routing
\* request is made only after geocoding succeeded, with the geocoded access
\* coordinate as destination; the price is computed only after routing
\* succeeded; a sink is called only when enabled and after the price is
\* shown; without an API key no request and no sink call is made.
C9_StepOrder ==
    /\ \A i, j \in 1..Len(events) : i < j => Rank(events[i]) < Rank(events[j])
    /\ Has(events, "geocode") = dest.called
    /\ Has(events, "route") = route.called
    /\ route.called =>
          /\ dest.called /\ dest.res.ok
          /\ route.destination = << dest.res.access_lat, dest.res.access_lon >>
    /\ Has(events, "tariff") = calc.done
    /\ calc.done => route.called /\ route.res.ok
    /\ Has(events, "csv") = (csv_log.calls = 1)
    /\ Has(events, "gsheet") = (gs_log.calls = 1)
    /\ csv_log.calls <= 1 /\ gs_log.calls <= 1
    /\ Has(events, "csv") => cfg.log_csv /\ Has(events, "display") /\ shown.result
    /\ Has(events, "gsheet") => cfg.gs_enable /\ Has(events, "display") /\ shown.result
    /\ Has(events, "display") => calc.done
    /\ ~host.api_key =>
          /\ events = << >>
          /\ ~dest.called /\ ~route.called
          /\ csv_log.calls = 0 /\ gs_log.calls = 0
          /\ csv_file = csv_log.init /\ sheet = gs_log.before

\* C9 witness: a run with both sinks enabled went through every step once,
\* in order, routing to an access coordinate that differs from the position
C9_Witness ==
    /\ pc = "done"
    /\ events = StepOrder
    /\ route.destination = << dest.res.access_lat, dest.res.access_lon >>
    /\ route.destination # << dest.res.lat, dest.res.lon >>

====
